---- MODULE Spec2Model ----
(***************************************************************************)
(* SPI1 driver of stm32f042-hal (src/spi.rs): the constructor spi1, the    *)
(* release operation, the non-blocking read and send of FullDuplex<u8>,    *)
(* and the blocking transfer built from them, run against the SPI1         *)
(* peripheral (control registers, status flags, transmit buffer, shift     *)
(* register and receive buffer) with the send line looped back to the      *)
(* receive line.                                                           *)
(***************************************************************************)
EXTENDS Integers, Sequences, FiniteSets, TLC

VARIABLES
    spi1en,     \* RCC.APB2ENR.SPI1EN: clock gate of SPI1
    spi1rst,    \* RCC.APB2RSTR.SPI1RST: reset line of SPI1
    cr1,        \* SPI1.CR1, a record of its bit-fields
    cr2,        \* SPI1.CR2, a record of its bit-fields
    txbuf,      \* transmit buffer behind DR (NoByte when empty: TXE set)
    shreg,      \* byte being shifted out on the wire (NoByte when idle)
    rxbuf,      \* receive buffer behind DR (NoByte when empty: RXNE clear)
    ovr,        \* SR.OVR
    modf,       \* SR.MODF
    crcerr,     \* SR.CRCERR
    owner,      \* who holds the SPI1 handle: "caller", "ctor", "driver", "none"
    pc,         \* position inside spi1, "idle" outside, "done" once returned
    pclk,       \* spi1 argument clocks.pclk().0
    speed,      \* spi1 argument speed.0
    mode,       \* spi1 argument mode
    br,         \* spi1 local br
    log,        \* register effects of the current spi1 call, in order
    op,         \* the last FullDuplex call: "none", "read", "send"
    arg,        \* the byte passed to the last send (NoByte for read)
    ret,        \* the nb::Result of the last FullDuplex call
    drAcc,      \* data-register access of the last call: "none", "read", "write"
    tpc,        \* position inside transfer or write: "idle", "send", "read",
                \* "wsend", and "ok", "err" once returned
    words,      \* the slice transfer or write works on
    sent,       \* the slice as passed to transfer or write
    idx,        \* index of the word transfer or write is at (1-based)
    txCount,    \* data-register writes of the current transfer or write
    rxCount,    \* data-register reads of the current transfer or write
    tres,       \* what the last transfer or write returned: "-", "Ok" or the
                \* Error
    pinsIn,     \* spi1 argument pins
    pins,       \* Spi.pins of the live driver (NoPins without one)
    back        \* what the last release returned (NoBack before it)

vars == <<spi1en, spi1rst, cr1, cr2, txbuf, shreg, rxbuf, ovr, modf, crcerr,
          owner, pc, pclk, speed, mode, br, log, op, arg, ret, drAcc,
          tpc, words, sent, idx, txCount, rxCount, tres, pinsIn, pins, back>>

hwVars == <<spi1en, spi1rst, cr1, cr2, txbuf, shreg, rxbuf, ovr, modf, crcerr>>
ctorVars == <<pclk, speed, mode, br, log>>
callVars == <<op, arg, ret, drAcc>>
xferVars == <<tpc, words, sent, idx, txCount, rxCount, tres>>
pinVars == <<pinsIn, pins, back>>

----------------------------------------------------------------------------
\* Bounds of the model.

\* Largest byte value driven through read, send and transfer.
MaxByte == 1
\* Longest slice passed to transfer.
MaxLen == 2
\* Largest bus clock and requested frequency of the divisor specification.
MaxPclk == 400
MaxSpeed == 6
\* Largest bus clock and requested frequency of the lifecycle specification.
MaxPclkLife == 3
MaxSpeedLife == 4

Bytes == 0..MaxByte
NoByte == -1

----------------------------------------------------------------------------
\* Types of the driver.

Phases == {"CaptureOnFirstTransition", "CaptureOnSecondTransition"}
Polarities == {"IdleLow", "IdleHigh"}
Modes == [phase : Phases, polarity : Polarities]

\* Pin types: a pin of port A or B in one of its alternate functions.
Af0(name) == [pin |-> name, mode |-> "Alternate<AF0>"]

Af1(name) == [pin |-> name, mode |-> "Alternate<AF1>"]

\* Triples of pin types a caller may try to hand to spi1: the two ports'
\* SCK/MISO/MOSI pins in AF0, and the same with a pin of the other port,
\* a pin in another alternate function, or the pins in another order.
PinTuples ==
    {<<Af0("PA5"), Af0("PA6"), Af0("PA7")>>,
     <<Af0("PB2"), Af0("PB4"), Af0("PB5")>>,
     <<Af0("PA5"), Af0("PB4"), Af0("PB5")>>,
     <<Af0("PB2"), Af0("PA6"), Af0("PA7")>>,
     <<Af1("PA5"), Af0("PA6"), Af0("PA7")>>,
     <<Af0("PB2"), Af0("PB4"), Af1("PB5")>>,
     <<Af0("PA7"), Af0("PA6"), Af0("PA5")>>,
     <<Af1("PB2"), Af1("PB4"), Af1("PB5")>>}
NoPins == <<>>

\* Variant: one more impl, for a triple that mixes the two ports.
PinsMixed(spi) ==
    IF spi = "SPI1"
       THEN {<<Af0("PA5"), Af0("PA6"), Af0("PA7")>>,
             <<Af0("PB2"), Af0("PB4"), Af0("PB5")>>,
             <<Af0("PA5"), Af0("PB4"), Af0("PB5")>>}
       ELSE {}

\* pub trait Pins<Spi> {}: the tuples with an impl Pins<spi>.
Pins(spi) ==
    IF spi = "SPI1"
       THEN {<<Af0("PA5"), Af0("PA6"), Af0("PA7")>>,
             <<Af0("PB2"), Af0("PB4"), Af0("PB5")>>}
       ELSE {}

\* where PINS: Pins<SPI1>: the triples that spi1 compiles with.
Admitted == {t \in PinTuples : t \in Pins("SPI1")}

\* The value release returns: (SPI1, PINS).
Back(s, p) == [spi |-> s, pins |-> p]
NoBack == [spi |-> "-", pins |-> NoPins]

\* nb::Result<u8, Error> and nb::Result<(), Error>
Ok(v) == [tag |-> "Ok", val |-> v, err |-> "-"]
WouldBlock == [tag |-> "WouldBlock", val |-> NoByte, err |-> "-"]
Other(e) == [tag |-> "Err", val |-> NoByte, err |-> e]
NoResult == [tag |-> "-", val |-> NoByte, err |-> "-"]

----------------------------------------------------------------------------
\* The SPI1 peripheral.

\* CR1 at reset: every field clear. "other" stands for the fields spi1 never
\* names (0: they hold their reset value).
Cr1Reset == [cpha |-> FALSE, cpol |-> FALSE, mstr |-> FALSE, br |-> 0,
             lsbfirst |-> FALSE, ssm |-> FALSE, ssi |-> FALSE,
             rxonly |-> FALSE, bidimode |-> FALSE, spe |-> FALSE, other |-> 0]
\* CR2 at reset.
Cr2Reset == [ssoe |-> FALSE, other |-> 0]

\* A CR1 and a CR2 left behind by an earlier user of the peripheral.
Cr1Dirty == [cpha |-> TRUE, cpol |-> TRUE, mstr |-> FALSE, br |-> 7,
             lsbfirst |-> TRUE, ssm |-> FALSE, ssi |-> FALSE,
             rxonly |-> TRUE, bidimode |-> TRUE, spe |-> TRUE, other |-> 1]
Cr2Dirty == [ssoe |-> TRUE, other |-> 1]

\* The status register as the driver reads it.
SR == [ovr |-> ovr, modf |-> modf, crcerr |-> crcerr,
       rxne |-> rxbuf # NoByte, txe |-> txbuf = NoByte]

\* The peripheral runs when it is clocked, out of reset and enabled.
Running == spi1en /\ ~spi1rst /\ cr1.spe

\* The transmit buffer is moved to the shift register: TXE becomes set.
HwLoad ==
    /\ Running
    /\ txbuf # NoByte
    /\ shreg = NoByte
    /\ shreg' = txbuf
    /\ txbuf' = NoByte
    /\ UNCHANGED <<spi1en, spi1rst, cr1, cr2, rxbuf, ovr, modf, crcerr>>
    /\ UNCHANGED <<owner, pc, ctorVars, callVars, xferVars, pinVars>>

\* The shifted byte comes back on the looped-back receive line: it lands in
\* the receive buffer (RXNE set), or is discarded with OVR set when the
\* previous byte has not been read.
HwShift ==
    /\ Running
    /\ shreg # NoByte
    /\ shreg' = NoByte
    /\ IF rxbuf = NoByte
          THEN rxbuf' = shreg /\ ovr' = ovr
          ELSE rxbuf' = rxbuf /\ ovr' = TRUE
    /\ UNCHANGED <<spi1en, spi1rst, cr1, cr2, txbuf, modf, crcerr>>
    /\ UNCHANGED <<owner, pc, ctorVars, callVars, xferVars, pinVars>>

\* The hardware raises the mode-fault or the CRC-error flag.
HwFault ==
    /\ Running
    /\ \/ ~modf /\ modf' = TRUE /\ crcerr' = crcerr
       \/ ~crcerr /\ crcerr' = TRUE /\ modf' = modf
    /\ UNCHANGED <<spi1en, spi1rst, cr1, cr2, txbuf, shreg, rxbuf, ovr>>
    /\ UNCHANGED <<owner, pc, ctorVars, callVars, xferVars, pinVars>>

----------------------------------------------------------------------------
\* Spi::spi1

\* let br = match clocks.pclk().0 / speed.0 { ... }; Unreachable stands for
\* the arm 0 => unreachable!().
Unreachable == -1

\* Variants of the match with one arm changed.
BrMatchShifted(ratio) ==
    CASE ratio = 0 -> Unreachable
      [] ratio \in 1..2 -> 0
      [] ratio \in 3..5 -> 1
      [] ratio \in 6..11 -> 2
      [] ratio \in 12..23 -> 3
      [] ratio \in 24..46 -> 4
      [] ratio \in 47..95 -> 5
      [] ratio \in 96..191 -> 6
      [] OTHER -> 7
BrMatchWide(ratio) ==
    CASE ratio = 0 -> Unreachable
      [] ratio \in 1..3 -> 0
      [] ratio \in 4..5 -> 1
      [] ratio \in 6..11 -> 2
      [] ratio \in 12..23 -> 3
      [] ratio \in 24..47 -> 4
      [] ratio \in 48..95 -> 5
      [] ratio \in 96..191 -> 6
      [] OTHER -> 7
BrMatchNoZero(ratio) ==
    CASE ratio \in 0..2 -> 0
      [] ratio \in 3..5 -> 1
      [] ratio \in 6..11 -> 2
      [] ratio \in 12..23 -> 3
      [] ratio \in 24..47 -> 4
      [] ratio \in 48..95 -> 5
      [] ratio \in 96..191 -> 6
      [] OTHER -> 7

BrMatch(ratio) ==
    CASE ratio = 0 -> Unreachable
      [] ratio \in 1..2 -> 0
      [] ratio \in 3..5 -> 1
      [] ratio \in 6..11 -> 2
      [] ratio \in 12..23 -> 3
      [] ratio \in 24..47 -> 4
      [] ratio \in 48..95 -> 5
      [] ratio \in 96..191 -> 6
      [] OTHER -> 7

\* Variant: set_bit in place of clear_bit.
Cr1SpeSet(r) == [r EXCEPT !.spe = TRUE]

\* spi.cr1.modify(|_, w| w.spe().clear_bit())
Cr1SpeCleared(r) == [r EXCEPT !.spe = FALSE]

\* spi.cr2.write(|w| w.ssoe().clear_bit())
Cr2SsoeCleared == [Cr2Reset EXCEPT !.ssoe = FALSE]

\* Variant: the phase and polarity bits are taken from each other's field.
Cr1ConfigSwapped(m, b) ==
    [Cr1Reset EXCEPT
        !.cpha = (m.polarity = "IdleHigh"),
        !.cpol = (m.phase = "CaptureOnSecondTransition"),
        !.mstr = TRUE,
        !.br = b,
        !.lsbfirst = FALSE,
        !.ssm = TRUE,
        !.ssi = TRUE,
        !.rxonly = FALSE,
        !.bidimode = FALSE,
        !.spe = TRUE]

\* Variant: the write leaves out .spe().set_bit().
Cr1ConfigNoSpe(m, b) ==
    [Cr1Reset EXCEPT
        !.cpha = (m.phase = "CaptureOnSecondTransition"),
        !.cpol = (m.polarity = "IdleHigh"),
        !.mstr = TRUE,
        !.br = b,
        !.ssm = TRUE,
        !.ssi = TRUE]

\* spi.cr1.write(|w| w.cpha().bit(..).cpol().bit(..).mstr().set_bit() ...)
Cr1Config(m, b) ==
    [Cr1Reset EXCEPT
        !.cpha = (m.phase = "CaptureOnSecondTransition"),
        !.cpol = (m.polarity = "IdleHigh"),
        !.mstr = TRUE,
        !.br = b,
        !.lsbfirst = FALSE,
        !.ssm = TRUE,
        !.ssi = TRUE,
        !.rxonly = FALSE,
        !.bidimode = FALSE,
        !.spe = TRUE]

\* Variant: spi1 borrows the handle, so it can be called while a driver
\* lives.
HandleBorrowed ==
    /\ pc \in {"idle", "done"}
    /\ owner \in {"caller", "driver"}
    /\ tpc \in {"idle", "ok", "err"}

\* spi1(spi: SPI1, ...) takes the handle by value: only its owner can call
\* it, and a driver that holds it must have been released first.
HandleMoved ==
    /\ pc = "idle"
    /\ owner = "caller"

\* The call, and rcc.apb2enr.modify(|_, w| w.spi1en().set_bit()).
EnableClock(P, S, M) ==
    /\ HandleMoved
    /\ \E p \in P, s \in S, m \in M :
          /\ pclk' = p
          /\ speed' = s
          /\ mode' = m
    /\ \E t \in Admitted : pinsIn' = t
    /\ back' = NoBack
    /\ owner' = "ctor"
    /\ spi1en' = TRUE
    /\ br' = 0
    /\ log' = <<"apb2enr.spi1en.set">>
    /\ pc' = "rst1"
    /\ UNCHANGED <<spi1rst, cr1, cr2, txbuf, shreg, rxbuf, ovr, modf, crcerr>>
    /\ UNCHANGED <<callVars, xferVars, pins>>

\* rcc.apb2rstr.modify(|_, w| w.spi1rst().set_bit()): the peripheral goes to
\* its power-on state.
AssertReset ==
    /\ pc = "rst1"
    /\ spi1rst' = TRUE
    /\ cr1' = Cr1Reset
    /\ cr2' = Cr2Reset
    /\ txbuf' = NoByte
    /\ shreg' = NoByte
    /\ rxbuf' = NoByte
    /\ ovr' = FALSE
    /\ modf' = FALSE
    /\ crcerr' = FALSE
    /\ log' = Append(log, "apb2rstr.spi1rst.set")
    /\ pc' = "rst0"
    /\ UNCHANGED <<spi1en, owner, pclk, speed, mode, br, callVars, xferVars, pinVars>>

\* rcc.apb2rstr.modify(|_, w| w.spi1rst().clear_bit())
DeassertReset ==
    /\ pc = "rst0"
    /\ spi1rst' = FALSE
    /\ log' = Append(log, "apb2rstr.spi1rst.clear")
    /\ pc' = "spe"
    /\ UNCHANGED <<spi1en, cr1, cr2, txbuf, shreg, rxbuf, ovr, modf, crcerr>>
    /\ UNCHANGED <<owner, pclk, speed, mode, br, callVars, xferVars, pinVars>>

\* spi.cr1.modify(|_, w| w.spe().clear_bit())
DisableSpe ==
    /\ pc = "spe"
    /\ cr1' = Cr1SpeCleared(cr1)
    /\ log' = Append(log, "cr1.modify.spe.clear")
    /\ pc' = "ssoe"
    /\ UNCHANGED <<spi1en, spi1rst, cr2, txbuf, shreg, rxbuf, ovr, modf, crcerr>>
    /\ UNCHANGED <<owner, pclk, speed, mode, br, callVars, xferVars, pinVars>>

\* spi.cr2.write(|w| w.ssoe().clear_bit())
DisableSsoe ==
    /\ pc = "ssoe"
    /\ cr2' = Cr2SsoeCleared
    /\ log' = Append(log, "cr2.write.ssoe.clear")
    /\ pc' = "br"
    /\ UNCHANGED <<spi1en, spi1rst, cr1, txbuf, shreg, rxbuf, ovr, modf, crcerr>>
    /\ UNCHANGED <<owner, pclk, speed, mode, br, callVars, xferVars, pinVars>>

\* let br = match clocks.pclk().0 / speed.0 { 0 => unreachable!(), ... }:
\* the division panics on speed.0 = 0, the match on a ratio of 0. A panic
\* never returns: the handle and the pins are lost with the call.
ComputeBr ==
    /\ pc = "br"
    /\ IF speed = 0 \/ BrMatch(pclk \div speed) = Unreachable
          THEN /\ pc' = "panicked"
               /\ owner' = "none"
               /\ br' = br
          ELSE /\ pc' = "cr1"
               /\ owner' = owner
               /\ br' = BrMatch(pclk \div speed)
    /\ UNCHANGED <<hwVars, pclk, speed, mode, log, callVars, xferVars, pinVars>>

\* spi.cr1.write(...), then Spi { spi, pins }
WriteCr1 ==
    /\ pc = "cr1"
    /\ cr1' = Cr1Config(mode, br)
    /\ log' = Append(log, "cr1.write")
    /\ pc' = "done"
    /\ owner' = "driver"
    /\ pins' = pinsIn
    /\ UNCHANGED <<spi1en, spi1rst, cr2, txbuf, shreg, rxbuf, ovr, modf, crcerr>>
    /\ UNCHANGED <<pclk, speed, mode, br, callVars, xferVars, pinsIn, back>>

\* Variant of release: the peripheral is disabled on the way out.
ReleaseDisables ==
    /\ pc = "done"
    /\ owner = "driver"
    /\ tpc \in {"idle", "ok", "err"}
    /\ owner' = "caller"
    /\ pc' = "idle"
    /\ back' = Back("SPI1", pins)
    /\ pins' = NoPins
    /\ cr1' = [cr1 EXCEPT !.spe = FALSE]
    /\ op' = "none"
    /\ arg' = NoByte
    /\ ret' = NoResult
    /\ drAcc' = "none"
    /\ UNCHANGED <<spi1en, spi1rst, cr2, txbuf, shreg, rxbuf, ovr, modf, crcerr>>
    /\ UNCHANGED <<ctorVars, xferVars, pinsIn>>

\* Spi::release: (self.spi, self.pins). The driver is consumed (its call
\* record goes with it) and the handle and the pins are back with the
\* caller; no register is touched.
Release ==
    /\ pc = "done"
    /\ owner = "driver"
    /\ tpc \in {"idle", "ok", "err"}
    /\ owner' = "caller"
    /\ pc' = "idle"
    /\ back' = Back("SPI1", pins)
    /\ pins' = NoPins
    /\ op' = "none"
    /\ arg' = NoByte
    /\ ret' = NoResult
    /\ drAcc' = "none"
    /\ UNCHANGED <<hwVars, ctorVars, xferVars, pinsIn>>

----------------------------------------------------------------------------
\* FullDuplex<u8> for Spi<SPI1, PINS>

\* Variant: on overrun the data register is read, which empties the
\* receive buffer, before the error is returned.
readDrainsOnOverrun ==
    /\ op' = "read"
    /\ arg' = NoByte
    /\ IF SR.ovr THEN
          /\ ret' = Other("Overrun")
          /\ drAcc' = "read"
          /\ rxbuf' = NoByte
       ELSE IF SR.modf THEN
          /\ ret' = Other("ModeFault")
          /\ drAcc' = "none"
          /\ rxbuf' = rxbuf
       ELSE IF SR.crcerr THEN
          /\ ret' = Other("Crc")
          /\ drAcc' = "none"
          /\ rxbuf' = rxbuf
       ELSE IF SR.rxne THEN
          /\ ret' = Ok(rxbuf)
          /\ drAcc' = "read"
          /\ rxbuf' = NoByte
       ELSE
          /\ ret' = Ok(0)
          /\ drAcc' = "none"
          /\ rxbuf' = rxbuf
    /\ UNCHANGED <<spi1en, spi1rst, cr1, cr2, txbuf, shreg, ovr, modf, crcerr>>

\* Variant of read: data availability is checked before the error flags.
readRxneFirst ==
    /\ op' = "read"
    /\ arg' = NoByte
    /\ IF SR.rxne THEN
          /\ ret' = Ok(rxbuf)
          /\ drAcc' = "read"
          /\ rxbuf' = NoByte
       ELSE IF SR.ovr THEN
          /\ ret' = Other("Overrun")
          /\ drAcc' = "none"
          /\ rxbuf' = rxbuf
       ELSE IF SR.modf THEN
          /\ ret' = Other("ModeFault")
          /\ drAcc' = "none"
          /\ rxbuf' = rxbuf
       ELSE IF SR.crcerr THEN
          /\ ret' = Other("Crc")
          /\ drAcc' = "none"
          /\ rxbuf' = rxbuf
       ELSE
          /\ ret' = Ok(0)
          /\ drAcc' = "none"
          /\ rxbuf' = rxbuf
    /\ UNCHANGED <<spi1en, spi1rst, cr1, cr2, txbuf, shreg, ovr, modf, crcerr>>

\* Variant of read: the last arm returns nb::Error::WouldBlock.
readWouldBlock ==
    /\ op' = "read"
    /\ arg' = NoByte
    /\ IF SR.ovr THEN
          /\ ret' = Other("Overrun")
          /\ drAcc' = "none"
          /\ rxbuf' = rxbuf
       ELSE IF SR.modf THEN
          /\ ret' = Other("ModeFault")
          /\ drAcc' = "none"
          /\ rxbuf' = rxbuf
       ELSE IF SR.crcerr THEN
          /\ ret' = Other("Crc")
          /\ drAcc' = "none"
          /\ rxbuf' = rxbuf
       ELSE IF SR.rxne THEN
          /\ ret' = Ok(rxbuf)
          /\ drAcc' = "read"
          /\ rxbuf' = NoByte
       ELSE
          /\ ret' = WouldBlock
          /\ drAcc' = "none"
          /\ rxbuf' = rxbuf
    /\ UNCHANGED <<spi1en, spi1rst, cr1, cr2, txbuf, shreg, ovr, modf, crcerr>>

\* fn read(&mut self) -> nb::Result<u8, Error>: one inspection of SR, then
\* at most one byte-wide read of DR, which empties the receive buffer.
read ==
    /\ op' = "read"
    /\ arg' = NoByte
    /\ IF SR.ovr THEN
          /\ ret' = Other("Overrun")
          /\ drAcc' = "none"
          /\ rxbuf' = rxbuf
       ELSE IF SR.modf THEN
          /\ ret' = Other("ModeFault")
          /\ drAcc' = "none"
          /\ rxbuf' = rxbuf
       ELSE IF SR.crcerr THEN
          /\ ret' = Other("Crc")
          /\ drAcc' = "none"
          /\ rxbuf' = rxbuf
       ELSE IF SR.rxne THEN
          /\ ret' = Ok(rxbuf)
          /\ drAcc' = "read"
          /\ rxbuf' = NoByte
       ELSE
          /\ ret' = Ok(0)
          /\ drAcc' = "none"
          /\ rxbuf' = rxbuf
    /\ UNCHANGED <<spi1en, spi1rst, cr1, cr2, txbuf, shreg, ovr, modf, crcerr>>

\* Variant of send: the sense of the TXE test is inverted.
sendTxeInverted(byte) ==
    /\ op' = "send"
    /\ arg' = byte
    /\ IF SR.ovr THEN
          /\ ret' = Other("Overrun")
          /\ drAcc' = "none"
          /\ txbuf' = txbuf
       ELSE IF SR.modf THEN
          /\ ret' = Other("ModeFault")
          /\ drAcc' = "none"
          /\ txbuf' = txbuf
       ELSE IF SR.crcerr THEN
          /\ ret' = Other("Crc")
          /\ drAcc' = "none"
          /\ txbuf' = txbuf
       ELSE IF ~SR.txe THEN
          /\ ret' = Ok(NoByte)
          /\ drAcc' = "write"
          /\ txbuf' = byte
       ELSE
          /\ ret' = WouldBlock
          /\ drAcc' = "none"
          /\ txbuf' = txbuf
    /\ UNCHANGED <<spi1en, spi1rst, cr1, cr2, shreg, rxbuf, ovr, modf, crcerr>>

\* Variant of send: the transmit buffer is checked before the error flags.
sendTxeFirst(byte) ==
    /\ op' = "send"
    /\ arg' = byte
    /\ IF ~SR.txe THEN
          /\ ret' = WouldBlock
          /\ drAcc' = "none"
          /\ txbuf' = txbuf
       ELSE IF SR.ovr THEN
          /\ ret' = Other("Overrun")
          /\ drAcc' = "none"
          /\ txbuf' = txbuf
       ELSE IF SR.modf THEN
          /\ ret' = Other("ModeFault")
          /\ drAcc' = "none"
          /\ txbuf' = txbuf
       ELSE IF SR.crcerr THEN
          /\ ret' = Other("Crc")
          /\ drAcc' = "none"
          /\ txbuf' = txbuf
       ELSE
          /\ ret' = Ok(NoByte)
          /\ drAcc' = "write"
          /\ txbuf' = byte
    /\ UNCHANGED <<spi1en, spi1rst, cr1, cr2, shreg, rxbuf, ovr, modf, crcerr>>

\* fn send(&mut self, byte: u8) -> nb::Result<(), Error>: one inspection of
\* SR, then at most one byte-wide write of DR, which fills the transmit
\* buffer.
send(byte) ==
    /\ op' = "send"
    /\ arg' = byte
    /\ IF SR.ovr THEN
          /\ ret' = Other("Overrun")
          /\ drAcc' = "none"
          /\ txbuf' = txbuf
       ELSE IF SR.modf THEN
          /\ ret' = Other("ModeFault")
          /\ drAcc' = "none"
          /\ txbuf' = txbuf
       ELSE IF SR.crcerr THEN
          /\ ret' = Other("Crc")
          /\ drAcc' = "none"
          /\ txbuf' = txbuf
       ELSE IF SR.txe THEN
          /\ ret' = Ok(NoByte)
          /\ drAcc' = "write"
          /\ txbuf' = byte
       ELSE
          /\ ret' = WouldBlock
          /\ drAcc' = "none"
          /\ txbuf' = txbuf
    /\ UNCHANGED <<spi1en, spi1rst, cr1, cr2, shreg, rxbuf, ovr, modf, crcerr>>

\* The owner of the driver is free to call it: no transfer is under way.
Callable == pc = "done" /\ owner = "driver" /\ tpc \in {"idle", "ok", "err"}

\* A call of read by the owner of the driver.
CallRead ==
    /\ Callable
    /\ read
    /\ UNCHANGED <<owner, pc, ctorVars, xferVars, pinVars>>

\* A call of send by the owner of the driver.
CallSend ==
    /\ Callable
    /\ \E b \in Bytes : send(b)
    /\ UNCHANGED <<owner, pc, ctorVars, xferVars, pinVars>>

----------------------------------------------------------------------------
\* blocking::spi::transfer::Default<u8> for Spi<SPI1, PINS>:
\*   for word in words.iter_mut() {
\*       block!(self.send(word.clone()))?;
\*       *word = block!(self.read())?;
\*   }
\*   Ok(words)

\* Slices of at most n bytes.
RECURSIVE Slices(_)
Slices(n) == IF n = 0 THEN {<<>>} ELSE Slices(n - 1) \cup [1..n -> Bytes]

\* Slices of at most n bytes, every byte the same.
Repeats(n) == {[i \in 1..k |-> MaxByte] : k \in 0..n}

\* The call of transfer, with a slice of W.
TransferCall(W) ==
    /\ Callable
    /\ \E ws \in W :
          /\ words' = ws
          /\ sent' = ws
          /\ tpc' = IF Len(ws) = 0 THEN "ok" ELSE "send"
          /\ tres' = IF Len(ws) = 0 THEN "Ok" ELSE "-"
    /\ idx' = 1
    /\ txCount' = 0
    /\ rxCount' = 0
    /\ UNCHANGED <<hwVars, owner, pc, ctorVars, callVars, pinVars>>

\* block!(self.send(word.clone()))?: one call of send; WouldBlock is retried.
TransferSend ==
    /\ tpc = "send"
    /\ send(words[idx])
    /\ tpc' = CASE ret'.tag = "Ok" -> "read"
                [] ret'.tag = "WouldBlock" -> "send"
                [] OTHER -> "err"
    /\ tres' = IF ret'.tag = "Err" THEN ret'.err ELSE tres
    /\ txCount' = IF drAcc' = "write" THEN txCount + 1 ELSE txCount
    /\ UNCHANGED <<owner, pc, ctorVars, words, sent, idx, rxCount, pinVars>>

\* *word = block!(self.read())?: one call of read; WouldBlock is retried.
TransferRead ==
    /\ tpc = "read"
    /\ read
    /\ CASE ret'.tag = "Ok" ->
              /\ words' = [words EXCEPT ![idx] = ret'.val]
              /\ idx' = idx + 1
              /\ tpc' = IF idx = Len(words) THEN "ok" ELSE "send"
              /\ tres' = IF idx = Len(words) THEN "Ok" ELSE tres
         [] ret'.tag = "WouldBlock" ->
              /\ UNCHANGED <<words, idx, tpc, tres>>
         [] OTHER ->
              /\ tpc' = "err"
              /\ tres' = ret'.err
              /\ UNCHANGED <<words, idx>>
    /\ rxCount' = IF drAcc' = "read" THEN rxCount + 1 ELSE rxCount
    /\ UNCHANGED <<owner, pc, ctorVars, sent, txCount, pinVars>>

----------------------------------------------------------------------------
\* blocking::spi::write::Default<u8> for Spi<SPI1, PINS>: the blocking
\* multi-byte send, each byte pushed with block!(self.send(word.clone()))?.

\* The call of write, with a slice of W.
WriteCall(W) ==
    /\ Callable
    /\ \E ws \in W :
          /\ words' = ws
          /\ sent' = ws
          /\ tpc' = IF Len(ws) = 0 THEN "ok" ELSE "wsend"
          /\ tres' = IF Len(ws) = 0 THEN "Ok" ELSE "-"
    /\ idx' = 1
    /\ txCount' = 0
    /\ rxCount' = 0
    /\ UNCHANGED <<hwVars, owner, pc, ctorVars, callVars, pinVars>>

\* block!(self.send(word.clone()))?: one call of send; WouldBlock is retried.
WriteSend ==
    /\ tpc = "wsend"
    /\ send(words[idx])
    /\ CASE ret'.tag = "Ok" ->
              /\ idx' = idx + 1
              /\ tpc' = IF idx = Len(words) THEN "ok" ELSE "wsend"
              /\ tres' = IF idx = Len(words) THEN "Ok" ELSE tres
         [] ret'.tag = "WouldBlock" ->
              /\ UNCHANGED <<idx, tpc, tres>>
         [] OTHER ->
              /\ tpc' = "err"
              /\ tres' = ret'.err
              /\ UNCHANGED idx
    /\ txCount' = IF drAcc' = "write" THEN txCount + 1 ELSE txCount
    /\ UNCHANGED <<owner, pc, ctorVars, words, sent, rxCount, pinVars>>

----------------------------------------------------------------------------
\* Specifications.

\* Program state before any call of the driver.
NoCalls ==
    /\ owner = "caller"
    /\ pc = "idle"
    /\ pclk = 0
    /\ speed = 0
    /\ mode = [phase |-> "CaptureOnFirstTransition", polarity |-> "IdleLow"]
    /\ br = 0
    /\ log = <<>>
    /\ op = "none"
    /\ arg = NoByte
    /\ ret = NoResult
    /\ drAcc = "none"
    /\ tpc = "idle"
    /\ words = <<>>
    /\ sent = <<>>
    /\ idx = 1
    /\ txCount = 0
    /\ rxCount = 0
    /\ tres = "-"
    /\ pinsIn = NoPins
    /\ pins = NoPins
    /\ back = NoBack

\* The lifecycle of the driver: the caller holds the SPI1 handle, with the
\* peripheral in whatever state an earlier user left it.
Init ==
    /\ spi1en \in BOOLEAN
    /\ spi1rst = FALSE
    /\ cr1 \in {Cr1Reset, Cr1Dirty}
    /\ cr2 \in {Cr2Reset, Cr2Dirty}
    /\ txbuf \in {NoByte, MaxByte}
    /\ shreg = NoByte
    /\ rxbuf \in {NoByte, MaxByte}
    /\ ovr \in BOOLEAN
    /\ modf \in BOOLEAN
    /\ crcerr \in BOOLEAN
    /\ NoCalls

Construct(P, S, M) ==
    \/ EnableClock(P, S, M)
    \/ AssertReset
    \/ DeassertReset
    \/ DisableSpe
    \/ DisableSsoe
    \/ ComputeBr
    \/ WriteCr1

Hardware == HwLoad \/ HwShift \/ HwFault

\* The modes of the lifecycle: embedded-hal's MODE_0 and MODE_3.
LifeModes ==
    {[phase |-> "CaptureOnFirstTransition", polarity |-> "IdleLow"],
     [phase |-> "CaptureOnSecondTransition", polarity |-> "IdleHigh"]}

Next ==
    \/ Construct({MaxPclkLife}, 0..MaxSpeedLife, LifeModes)
    \/ Release
    \/ CallRead
    \/ CallSend
    \/ Hardware

Spec == Init /\ [][Next]_vars

\* The constructor alone, from power-on, over a wide range of bus clocks and
\* requested frequencies.
InitBr ==
    /\ spi1en = FALSE
    /\ spi1rst = FALSE
    /\ cr1 = Cr1Reset
    /\ cr2 = Cr2Reset
    /\ txbuf = NoByte
    /\ shreg = NoByte
    /\ rxbuf = NoByte
    /\ ovr = FALSE
    /\ modf = FALSE
    /\ crcerr = FALSE
    /\ NoCalls

NextBr ==
    Construct((0..MaxPclk) \cup {48000000}, (0..MaxSpeed) \cup {1000000},
              Modes)

SpecBr == InitBr /\ [][NextBr]_vars

\* Transfers on a driver that spi1 has just returned.
InitXfer ==
    /\ spi1en = TRUE
    /\ spi1rst = FALSE
    /\ mode = [phase |-> "CaptureOnFirstTransition", polarity |-> "IdleLow"]
    /\ cr1 = Cr1Config(mode, BrMatch(MaxPclkLife))
    /\ cr2 = Cr2SsoeCleared
    /\ txbuf = NoByte
    /\ shreg = NoByte
    /\ rxbuf = NoByte
    /\ ovr = FALSE
    /\ modf = FALSE
    /\ crcerr = FALSE
    /\ owner = "driver"
    /\ pc = "done"
    /\ pclk = MaxPclkLife
    /\ speed = 1
    /\ br = BrMatch(MaxPclkLife)
    /\ log = <<"apb2enr.spi1en.set", "apb2rstr.spi1rst.set",
               "apb2rstr.spi1rst.clear", "cr1.modify.spe.clear",
               "cr2.write.ssoe.clear", "cr1.write">>
    /\ op = "none"
    /\ arg = NoByte
    /\ ret = NoResult
    /\ drAcc = "none"
    /\ tpc = "idle"
    /\ words = <<>>
    /\ sent = <<>>
    /\ idx = 1
    /\ txCount = 0
    /\ rxCount = 0
    /\ tres = "-"
    /\ pinsIn = <<Af0("PA5"), Af0("PA6"), Af0("PA7")>>
    /\ pins = pinsIn
    /\ back = NoBack

NextXfer ==
    \/ TransferCall(Slices(MaxLen))
    \/ TransferSend
    \/ TransferRead
    \/ WriteCall(Slices(MaxLen))
    \/ WriteSend
    \/ Hardware

SpecXfer == InitXfer /\ [][NextXfer]_vars

\* The blocking operations on slices of one repeated byte: whether and when
\* they return does not depend on the bytes.
NextXferFair ==
    \/ TransferCall(Repeats(MaxLen))
    \/ TransferSend
    \/ TransferRead
    \/ WriteCall(Repeats(MaxLen))
    \/ WriteSend
    \/ Hardware

\* Under fair hardware and a caller that keeps running: a byte in the
\* transmit buffer is eventually taken (TXE set again), a byte in the shift
\* register eventually arrives, and a loop of block! keeps polling.
SpecXferFair ==
    /\ InitXfer
    /\ [][NextXferFair]_vars
    /\ WF_vars(HwLoad)
    /\ WF_vars(HwShift)
    /\ WF_vars(TransferSend)
    /\ WF_vars(TransferRead)
    /\ WF_vars(WriteSend)

----------------------------------------------------------------------------
\* Properties of the divisor (SpecBr).

\* The inputs the divisor claims are about: bus clock >= requested > 0.
InContract == pclk >= speed /\ speed > 0

\* C1: for p >= s > 0 spi1 never panics and leaves in BR the code of the
\* table on floor(p / s): 1..2 -> 0, 3..5 -> 1, 6..11 -> 2, 12..23 -> 3,
\* 24..47 -> 4, 48..95 -> 5, 96..191 -> 6, >= 192 -> 7; 48 MHz over 1 MHz
\* gives ratio 48 and code 0b101; the code is in 0..7.
C1_BaudRateTable ==
    /\ pc = "panicked" => ~InContract
    /\ (pc = "done" /\ InContract) =>
          LET ratio == pclk \div speed IN
          /\ cr1.br \in 0..7
          /\ ratio >= 1 /\ ratio <= 2 => cr1.br = 0
          /\ ratio >= 3 /\ ratio <= 5 => cr1.br = 1
          /\ ratio >= 6 /\ ratio <= 11 => cr1.br = 2
          /\ ratio >= 12 /\ ratio <= 23 => cr1.br = 3
          /\ ratio >= 24 /\ ratio <= 47 => cr1.br = 4
          /\ ratio >= 48 /\ ratio <= 95 => cr1.br = 5
          /\ ratio >= 96 /\ ratio <= 191 => cr1.br = 6
          /\ ratio >= 192 => cr1.br = 7
          /\ (pclk = 48000000 /\ speed = 1000000) => (ratio = 48 /\ cr1.br = 5)

\* spi1 has returned for 48 MHz over 1 MHz with code 0b101 in BR.
C1_Witness ==
    pc = "done" /\ pclk = 48000000 /\ speed = 1000000 /\ cr1.br = 5

\* C2 as claimed: for p >= s > 0 the bus frequency p / 2^(BR+1) is at most
\* the requested frequency s (stated on the rounded-down frequency, which
\* is the weaker reading).
C2_NeverAboveRequested ==
    (pc = "done" /\ InContract) => pclk \div (2 ^ (cr1.br + 1)) <= speed

\* C2 as amended: for p >= s > 0 with floor(p / s) < 384 the bus frequency
\* p / 2^(BR+1) is below one and a half times the requested frequency s.
C2_BelowOneAndAHalf ==
    (pc = "done" /\ InContract /\ pclk \div speed < 384) =>
        2 * pclk < 3 * speed * (2 ^ (cr1.br + 1))

\* spi1 has returned with a bus frequency above the requested one.
C2_Witness ==
    /\ pc = "done"
    /\ InContract
    /\ pclk \div speed < 384
    /\ pclk \div (2 ^ (cr1.br + 1)) > speed

----------------------------------------------------------------------------
\* Properties of the lifecycle (Spec).

\* The set of register effects spi1 has performed so far.
Effects == {log[i] : i \in 1..Len(log)}

\* The register effects of a completed spi1, in order.
FullOrder == <<"apb2enr.spi1en.set", "apb2rstr.spi1rst.set",
               "apb2rstr.spi1rst.clear", "cr1.modify.spe.clear",
               "cr2.write.ssoe.clear", "cr1.write">>

\* C3 as claimed: when spi1 aborts it has never written CR1, never set SPE
\* and never returned a driver.
C3_NeverWritesCr1 ==
    pc = "panicked" =>
        /\ "cr1.modify.spe.clear" \notin Effects
        /\ "cr1.write" \notin Effects
        /\ ~cr1.spe
        /\ owner # "driver"

\* C3 as amended: spi1 aborts exactly on a requested frequency of zero or
\* above the bus clock; when it aborts, its only access to CR1 is the
\* SPE-clearing modify that follows the reset pulse, so CR1 still holds its
\* reset value (no divisor, SPE clear), the configuration write never
\* happens and no driver is returned.
C3_FailFast ==
    /\ pc = "panicked" =>
          /\ speed = 0 \/ speed > pclk
          /\ log = SubSeq(FullOrder, 1, 5)
          /\ cr1 = Cr1Reset
          /\ owner = "none"
    /\ pc \in {"cr1", "done"} => InContract

\* spi1 has aborted on a requested frequency above the bus clock, after the
\* SPE-clearing modify of CR1.
C3_Witness ==
    /\ pc = "panicked"
    /\ speed > pclk
    /\ "cr1.modify.spe.clear" \in Effects
    /\ spi1en

\* C4: read classifies in strict priority order: Overrun if OVR is set,
\* else ModeFault if MODF is set, else Crc if CRCERR is set, else the byte
\* of the data register if RXNE is set; with any error flag set it reports
\* the error, reads no data register and returns no byte.
C4_ReadPriority ==
    [][CallRead =>
        /\ ovr => ret' = Other("Overrun")
        /\ (~ovr /\ modf) => ret' = Other("ModeFault")
        /\ (~ovr /\ ~modf /\ crcerr) => ret' = Other("Crc")
        /\ (~ovr /\ ~modf /\ ~crcerr /\ rxbuf # NoByte) =>
              (ret' = Ok(rxbuf) /\ drAcc' = "read" /\ rxbuf' = NoByte)
        /\ (ovr \/ modf \/ crcerr) =>
              (ret'.tag = "Err" /\ drAcc' = "none" /\ rxbuf' = rxbuf)
    ]_vars

\* read has reported Overrun with OVR and RXNE both set, leaving the byte.
C4_Witness ==
    /\ op = "read"
    /\ ovr
    /\ rxbuf # NoByte
    /\ ret = Other("Overrun")
    /\ drAcc = "none"

\* C5: send reports WouldBlock if and only if TXE is clear and no error
\* flag is set; with an error flag set it reports Overrun, ModeFault or Crc
\* in that order whatever TXE is.
C5_SendWouldBlock ==
    [][CallSend =>
        /\ (ret' = WouldBlock) <=> (txbuf # NoByte /\ ~ovr /\ ~modf /\ ~crcerr)
        /\ ovr => ret' = Other("Overrun")
        /\ (~ovr /\ modf) => ret' = Other("ModeFault")
        /\ (~ovr /\ ~modf /\ crcerr) => ret' = Other("Crc")
        /\ (~ovr /\ ~modf /\ ~crcerr /\ txbuf = NoByte) => ret' = Ok(NoByte)
    ]_vars

\* send has reported WouldBlock on a full transmit buffer with no error.
C5_Witness ==
    /\ op = "send"
    /\ ret = WouldBlock
    /\ txbuf # NoByte
    /\ ~ovr /\ ~modf /\ ~crcerr

\* C6: with no error flag set and RXNE clear, read returns Ok(0) without
\* touching the data register; read never returns WouldBlock.
C6_ReadZeroNotWouldBlock ==
    /\ [](op = "read" => ret.tag # "WouldBlock")
    /\ [][(CallRead /\ ~ovr /\ ~modf /\ ~crcerr /\ rxbuf = NoByte) =>
            (ret' = Ok(0) /\ drAcc' = "none" /\ rxbuf' = NoByte)]_vars

\* read has returned Ok(0) on an empty receive buffer with no error flag.
C6_Witness ==
    /\ op = "read"
    /\ ret = Ok(0)
    /\ drAcc = "none"
    /\ rxbuf = NoByte
    /\ ~ovr /\ ~modf /\ ~crcerr
    /\ shreg # NoByte

----------------------------------------------------------------------------
\* Properties of transfer (SpecXfer).

\* C7 as claimed: a transfer against the loopback that returns Ok returns
\* the bytes it was passed, in order.
C7_RoundTrip == tpc = "ok" => words = sent

\* C8 as claimed: during a transfer the byte of position i+1 is not
\* written to the data register before the byte received for position i
\* has been read out of it, and no step raises OVR.
C8_NoOverrun ==
    [][(tpc = "send" \/ tpc = "read") =>
        (txCount' <= rxCount' + 1 /\ (ovr' => ovr))]_vars

----------------------------------------------------------------------------
\* Properties of the lifecycle, continued (Spec).

\* The number of register effects behind each position of spi1.
EffectsAt(p) ==
    CASE p = "rst1" -> 1
      [] p = "rst0" -> 2
      [] p = "spe" -> 3
      [] p = "ssoe" -> 4
      [] p \in {"br", "cr1", "panicked"} -> 5
      [] OTHER -> 6

\* C9: spi1 performs its register effects in the order clock gate on,
\* reset asserted, reset de-asserted, SPE cleared, SSOE cleared, one write
\* of CR1; SPE is 0 from the reset pulse until that write, which carries
\* phase, polarity, master, divisor and SPE together and is the last
\* effect.
C9_EffectOrder ==
    /\ [](pc # "idle" => log = SubSeq(FullOrder, 1, EffectsAt(pc)))
    /\ [](pc \in {"rst0", "spe", "ssoe", "br", "cr1"} => ~cr1.spe)
    /\ [][(pc = "cr1" /\ pc' # "cr1") =>
            /\ pc' = "done"
            /\ ~cr1.spe /\ ~cr1.mstr /\ cr1.br = 0
            /\ cr1'.spe /\ cr1'.mstr /\ cr1'.br = br
            /\ cr1'.cpha = (mode.phase = "CaptureOnSecondTransition")
            /\ cr1'.cpol = (mode.polarity = "IdleHigh")]_vars

\* spi1 has returned after its six register effects, with a divisor.
C9_Witness ==
    /\ pc = "done"
    /\ log = FullOrder
    /\ cr1.spe
    /\ cr1.br = 1

\* C10: whatever state the peripheral was in before, once spi1 has
\* returned the peripheral is enabled and CR1 and CR2 hold a value fixed
\* by the mode and the divisor alone, so constructing again with the same
\* arguments gives the same registers.
C10_Idempotent ==
    pc = "done" =>
        /\ cr1.spe
        /\ cr1 = [cpha |-> mode.phase # "CaptureOnFirstTransition",
                  cpol |-> mode.polarity # "IdleLow",
                  mstr |-> TRUE, br |-> br, lsbfirst |-> FALSE,
                  ssm |-> TRUE, ssi |-> TRUE, rxonly |-> FALSE,
                  bidimode |-> FALSE, spe |-> TRUE, other |-> 0]
        /\ cr2 = [ssoe |-> FALSE, other |-> 0]

\* spi1 has returned in mode 3 with divisor code 1.
C10_Witness ==
    /\ pc = "done"
    /\ mode = [phase |-> "CaptureOnSecondTransition", polarity |-> "IdleHigh"]
    /\ br = 1
    /\ cr1.spe
    /\ cr1.cpha /\ cr1.cpol

----------------------------------------------------------------------------
\* Properties of the blocking operations (SpecXfer).

\* A transfer or a write is under way.
InProgress == tpc = "send" \/ tpc = "read" \/ tpc = "wsend"

\* One call of send or read made by a transfer or a write.
BlockingStep == TransferSend \/ TransferRead \/ WriteSend

\* The error the status flags stand for, in the order of the checks.
FlaggedError ==
    IF ovr THEN "Overrun"
    ELSE IF modf THEN "ModeFault"
    ELSE IF crcerr THEN "Crc"
    ELSE "-"

\* C11: in transfer and write, the call of send or read that finds an error
\* flag set reports it without touching the data register, and the blocking
\* operation returns that same error at once, leaving the remaining bytes
\* alone; after it has returned no further call is made on its behalf; only
\* WouldBlock makes it call again.
C11_ErrorsTerminal ==
    /\ [][BlockingStep =>
            /\ FlaggedError # "-" =>
                  /\ ret' = Other(FlaggedError)
                  /\ drAcc' = "none"
                  /\ UNCHANGED <<txbuf, rxbuf, words, idx, txCount, rxCount>>
            /\ ret'.tag = "Err" => (tpc' = "err" /\ tres' = ret'.err)
            /\ ret'.tag = "WouldBlock" =>
                  (tpc' = tpc /\ idx' = idx /\ words' = words /\ tres' = "-")
            /\ ret'.tag = "Ok" => (tpc' # tpc \/ idx' = idx + 1)
            /\ tpc' = tpc => ret'.tag \in {"WouldBlock", "Ok"}]_vars
    /\ [](tpc = "err" =>
            /\ tres \in {"Overrun", "ModeFault", "Crc"}
            /\ ret = Other(tres)
            /\ drAcc = "none"
            /\ idx <= Len(words))
    /\ [][(tpc = "err" /\ tpc' = "err") =>
            UNCHANGED <<callVars, xferVars>>]_vars

\* A transfer has returned Overrun from the read of its second byte, the
\* overrun raised while it ran.
C11_Witness ==
    /\ tpc = "err"
    /\ tres = "Overrun"
    /\ op = "read"
    /\ idx = 2
    /\ txCount = 2

----------------------------------------------------------------------------
\* Properties of release and of the pin binding (Spec).

\* C12: release returns the SPI1 handle and the very pin tuple passed to
\* spi1 and changes no hardware register; the peripheral-enable bit is
\* still set after it.
C12_ReleaseFrame ==
    /\ [][(pc = "done" /\ pc' = "idle") =>
            /\ UNCHANGED hwVars
            /\ back' = [spi |-> "SPI1", pins |-> pinsIn]
            /\ back'.pins = pins
            /\ cr1'.spe]_vars
    /\ [](back # NoBack =>
            (pc = "idle" /\ back.pins = pinsIn /\ cr1.spe /\ spi1en))

\* release has handed back the port B pins of a driver that had sent a
\* byte, the peripheral still enabled and the byte still in its buffer.
C12_Witness ==
    /\ pc = "idle"
    /\ back = [spi |-> "SPI1",
               pins |-> <<Af0("PB2"), Af0("PB4"), Af0("PB5")>>]
    /\ cr1.spe
    /\ rxbuf # NoByte

\* C13: the handle has one owner at a time, the caller or one driver (or
\* the spi1 call that is building the driver); a driver is built only from a
\* handle the caller owns, so a second one needs the first to be released;
\* and read and send act only through a live driver.
C13_SingleOwner ==
    /\ [](/\ (pc = "idle") = (owner = "caller")
          /\ (pc = "done") = (owner = "driver")
          /\ (pins # NoPins) = (owner = "driver")
          /\ owner # "driver" => (op = "none" /\ drAcc = "none"))
    /\ [][/\ (owner' = "ctor" /\ owner # "ctor") =>
                (owner = "caller" /\ pins = NoPins)
          /\ (owner' = "driver" /\ owner # "driver") =>
                (owner = "ctor" /\ pins' = pinsIn)
          /\ (owner = "driver" /\ owner' # "driver") =>
                (owner' = "caller" /\ back' = Back("SPI1", pins))
          /\ callVars' # callVars =>
                (owner = "driver" /\ (owner' = "driver" \/ op' = "none"))]_vars

\* A second spi1 call is under way on a handle that an earlier driver
\* configured and released.
C13_Witness ==
    /\ pc = "rst1"
    /\ owner = "ctor"
    /\ cr1.mstr
    /\ cr1.ssm
    /\ pins = NoPins

\* C14: spi1 takes a pin tuple exactly when an impl of Pins<SPI1> exists for
\* it: the two tuples (PA5, PA6, PA7) and (PB2, PB4, PB5), every pin in
\* alternate function 0. No call is ever made, and no driver ever holds
\* pins, with a tuple of mixed ports, another order or another alternate
\* function.
C14_PinBinding ==
    LET declared == {<<[pin |-> "PA5", mode |-> "Alternate<AF0>"],
                       [pin |-> "PA6", mode |-> "Alternate<AF0>"],
                       [pin |-> "PA7", mode |-> "Alternate<AF0>"]>>,
                     <<[pin |-> "PB2", mode |-> "Alternate<AF0>"],
                       [pin |-> "PB4", mode |-> "Alternate<AF0>"],
                       [pin |-> "PB5", mode |-> "Alternate<AF0>"]>>}
    IN  /\ \A t \in PinTuples : (t \in Admitted) = (t \in declared)
        /\ Cardinality(Admitted) = 2
        /\ owner \in {"ctor", "driver"} => pinsIn \in declared
        /\ pins # NoPins => pins \in declared
        /\ back # NoBack => back.pins \in declared

\* A driver built on the port A pins is live and has received a byte.
C14_Witness ==
    /\ owner = "driver"
    /\ pins = <<Af0("PA5"), Af0("PA6"), Af0("PA7")>>
    /\ rxbuf # NoByte
    /\ op = "read"

----------------------------------------------------------------------------
\* The configuration word, for every mode and every divisor (SpecBr).

\* C15: when spi1 has returned, CR1 has been written once and holds: CPHA
\* set iff the mode captures on the second transition, CPOL set iff the mode
\* idles high, MSTR set, BR the divisor code of pclk / speed, LSBFIRST
\* clear, SSM and SSI set, RXONLY and BIDIMODE clear, SPE set, and every
\* other bit at its reset value.
C15_Cr1Fields ==
    pc = "done" =>
        /\ Len(SelectSeq(log, LAMBDA e : e = "cr1.write")) = 1
        /\ log[Len(log)] = "cr1.write"
        /\ cr1.cpha = (mode.phase = "CaptureOnSecondTransition")
        /\ cr1.cpol = (mode.polarity = "IdleHigh")
        /\ cr1.mstr
        /\ cr1.br = BrMatch(pclk \div speed)
        /\ cr1.br \in 0..7
        /\ ~cr1.lsbfirst
        /\ cr1.ssm
        /\ cr1.ssi
        /\ ~cr1.rxonly
        /\ ~cr1.bidimode
        /\ cr1.spe
        /\ cr1.other = Cr1Reset.other

\* spi1 has returned for 48 MHz / 1 MHz (code 5) in the mode that captures
\* on the second transition and idles low.
C15_Witness ==
    /\ pc = "done"
    /\ pclk = 48000000
    /\ speed = 1000000
    /\ cr1.br = 5
    /\ mode = [phase |-> "CaptureOnSecondTransition", polarity |-> "IdleLow"]
    /\ cr1.cpha
    /\ ~cr1.cpol

----------------------------------------------------------------------------
\* Frame of the calls that fail (Spec).

\* C16: a read or send that returns an error or WouldBlock makes no access
\* to DR and leaves every register as it was; a call made while an error
\* flag is set returns that error and leaves the flag set, so the next call
\* returns it again; DR is written only by a send that returns Ok, with the
\* byte passed in.
C16_FailingCallFrame ==
    [][(CallRead \/ CallSend) =>
          /\ ret'.tag \in {"Err", "WouldBlock"} =>
                (drAcc' = "none" /\ UNCHANGED hwVars)
          /\ FlaggedError # "-" =>
                /\ ret' = Other(FlaggedError)
                /\ FlaggedError' = FlaggedError
                /\ UNCHANGED <<ovr, modf, crcerr>>
          /\ (drAcc' = "write" \/ txbuf' # txbuf) =>
                /\ op' = "send"
                /\ ret' = Ok(NoByte)
                /\ drAcc' = "write"
                /\ txbuf' = arg'
                /\ arg' \in Bytes
          /\ (op' = "send" /\ ret'.tag = "Ok") => drAcc' = "write"]_vars

\* A send has failed with a CRC error while a received byte waits and the
\* transmit buffer still holds the byte of an earlier send.
C16_Witness ==
    /\ op = "send"
    /\ ret = Other("Crc")
    /\ drAcc = "none"
    /\ crcerr
    /\ rxbuf # NoByte
    /\ txbuf # NoByte
    /\ arg # txbuf

----------------------------------------------------------------------------
\* Termination of the blocking operations (SpecXferFair).

\* C17: a call of read or send inside a blocking operation is always able
\* to run and gives its result in that one step, whatever the hardware
\* state; with fair hardware a blocking write or transfer eventually
\* returns, Ok or with an error; and it returns only on a step whose call
\* did not report WouldBlock: while send reports WouldBlock it stays where
\* it is.
C17_BlockingTerminates ==
    /\ [](InProgress => ENABLED BlockingStep)
    /\ [][BlockingStep =>
            /\ op' \in {"read", "send"}
            /\ ret'.tag \in {"Ok", "Err", "WouldBlock"}
            /\ ret'.tag = "WouldBlock" =>
                  (op' = "send" /\ InProgress' /\ UNCHANGED <<tpc, idx, tres>>)]_vars
    /\ [][(InProgress /\ ~InProgress') =>
            (BlockingStep /\ ret'.tag \in {"Ok", "Err"}
                /\ tpc' \in {"ok", "err"})]_vars
    /\ InProgress ~> (tpc \in {"ok", "err"})

\* The second send of a blocking write has reported WouldBlock: the first
\* byte is still in the shift register and the transmit buffer is full.
C17_Witness ==
    /\ tpc = "wsend"
    /\ idx = 2
    /\ op = "send"
    /\ ret = WouldBlock
    /\ txbuf # NoByte
    /\ shreg # NoByte

====
